---- MODULE Spec2Model ----
(***************************************************************************)
(* Model of convert_to_claudeai.py (class SkillConverter): the conversion  *)
(* of a skill bundle into a zip archive.                                    *)
(*                                                                          *)
(* Text is a sequence of one-character strings.  A regular expression is a  *)
(* sequence of atoms matched by backtracking, as Python's re does.  A path  *)
(* is a sequence of components, a component a sequence of name tokens.      *)
(***************************************************************************)
EXTENDS Integers, Sequences, FiniteSets, TLC

VARIABLES
    skill,         \* the source bundle at skill_path (never written by the program)
    dry_run,       \* self.dry_run
    keep_tools,    \* self.keep_tools
    changes,       \* self.changes
    warnings,      \* self.warnings
    fs,            \* the output directory: staging directory and archive
    pc,            \* position inside convert()
    loc,           \* locals of the running method
    pre,           \* fs as it was when convert() was entered
    reports,       \* per (dry_run, keep_tools): the lists of the last run that returned a path
    arg,           \* argument of the function under test (function specifications)
    ret            \* its result (function specifications)

vars == <<skill, dry_run, keep_tools, changes, warnings, fs, pc, loc, pre, reports, arg, ret>>

-----------------------------------------------------------------------------
(* Regular expressions *)

Lower == {"a","b","c","d","e","f","g","h","i","j","k","l","m",
          "n","o","p","q","r","s","t","u","v","w","x","y","z"}
Upper == {"A","B","C","D","E","F","G","H","I","J","K","L","M",
          "N","O","P","Q","R","S","T","U","V","W","X","Y","Z"}
Digit == {"0","1","2","3","4","5","6","7","8","9"}

\* \w
WordChars == Lower \cup Upper \cup Digit \cup {"_"}

Lit(c) == [t |-> "lit", c |-> c]
Plus(cls) == [t |-> "plus", c |-> cls]
Star(cls) == [t |-> "star", c |-> cls]
LazyStar(cls) == [t |-> "lazystar", c |-> cls]
Lits(str) == [i \in 1..Len(str) |-> Lit(str[i])]

\* character classes: \w, [^)], and . under re.DOTALL
InClass(cls, ch) ==
    CASE cls = "w" -> ch \in WordChars
      [] cls = "notrparen" -> ch # ")"
      [] cls = "dot" -> TRUE

RECURSIVE Run(_, _, _)
\* the number of consecutive characters of class cls in s from position i
Run(cls, s, i) ==
    IF i <= Len(s) /\ InClass(cls, s[i]) THEN 1 + Run(cls, s, i + 1) ELSE 0

RECURSIVE Match(_, _, _, _)
RECURSIVE TryDown(_, _, _, _, _, _)
RECURSIVE TryUp(_, _, _, _, _, _)
\* re.match of atoms k.. of re on s at position i: the position after the match, or 0
Match(re, k, s, i) ==
    IF k > Len(re) THEN i
    ELSE LET a == re[k] IN
         IF a.t = "lit"
         THEN IF i <= Len(s) /\ s[i] = a.c THEN Match(re, k + 1, s, i + 1) ELSE 0
         ELSE LET n == Run(a.c, s, i)
                  lo == IF a.t = "plus" THEN 1 ELSE 0
              IN IF a.t = "lazystar" THEN TryUp(re, k, s, i, lo, n)
                                     ELSE TryDown(re, k, s, i, n, lo)

\* a greedy quantifier: the longest repetition first
TryDown(re, k, s, i, j, lo) ==
    IF j < lo THEN 0
    ELSE LET r == Match(re, k + 1, s, i + j) IN
         IF r # 0 THEN r ELSE TryDown(re, k, s, i, j - 1, lo)

\* a lazy quantifier: the shortest repetition first
TryUp(re, k, s, i, j, hi) ==
    IF j > hi THEN 0
    ELSE LET r == Match(re, k + 1, s, i + j) IN
         IF r # 0 THEN r ELSE TryUp(re, k, s, i, j + 1, hi)

RECURSIVE Scan(_, _, _)
\* the non-overlapping matches of re in s from position pos, leftmost first,
\* each as <<start, position after the match>>
Scan(re, s, pos) ==
    IF pos > Len(s) + 1 THEN <<>>
    ELSE LET e == Match(re, 1, s, pos) IN
         IF e = 0 THEN Scan(re, s, pos + 1)
         ELSE <<(<<pos, e>>)>> \o Scan(re, s, IF e = pos THEN pos + 1 ELSE e)

\* re.findall(pattern, s, re.DOTALL) for a pattern without groups
FindAll(re, s) == Scan(re, s, 1)

RECURSIVE Splice(_, _, _, _)
Splice(s, repl, ms, pos) ==
    IF ms = <<>> THEN SubSeq(s, pos, Len(s))
    ELSE SubSeq(s, pos, ms[1][1] - 1) \o repl \o Splice(s, repl, Tail(ms), ms[1][2])

\* faulty variant: re.sub(..., count=1) replaces the first match only
Sub_FirstOnly(re, repl, s) ==
    LET ms == FindAll(re, s) IN
    IF ms = <<>> THEN s ELSE Splice(s, repl, <<ms[1]>>, 1)

\* re.sub(pattern, replacement, s, flags=re.DOTALL) for a literal replacement
Sub(re, repl, s) == Splice(s, repl, FindAll(re, s), 1)

-----------------------------------------------------------------------------
(* Class constants *)

\* the grave accent character (the lexer of TLA+ takes none inside a string)
Backtick == "GRAVE"

REMOVE_YAML_FIELDS == <<"allowed-tools">>

StrMcp == <<"m","c","p","_","_">>
StrUU == <<"_","_">>
StrBashLp == <<"B","a","s","h","(">>
StrMcpRemoved == <<"[","M","C","P"," ","t","o","o","l"," ","r","e","f","e","r","e","n","c","e",
                   " ","r","e","m","o","v","e","d","]">>
StrMcpTool == <<"[","M","C","P"," ","t","o","o","l","]">>
StrCli == <<"[","C","L","I"," ","c","o","m","m","a","n","d","]">>

ReMcpName == Lits(StrMcp) \o <<Plus("w")>> \o Lits(StrUU) \o <<Plus("w")>>
ReMcpCall == ReMcpName \o <<Lit("("), Star("notrparen"), Lit(")")>>

\* (pattern, replacement) in order
CC_PATTERNS == <<
    [id |-> "mcp_call_quoted", re |-> <<Lit(Backtick)>> \o ReMcpCall \o <<Lit(Backtick)>>, repl |-> StrMcpRemoved],
    [id |-> "mcp_call", re |-> ReMcpCall, repl |-> StrMcpRemoved],
    [id |-> "mcp_name", re |-> ReMcpName, repl |-> StrMcpTool],
    [id |-> "bash_call", re |-> Lits(StrBashLp) \o <<Plus("notrparen"), Lit(")")>>, repl |-> StrCli] >>

StrScripts == <<"s","c","r","i","p","t","s","/">>
StrFenceBash == <<Backtick, Backtick, Backtick,"b","a","s","h","\n">>
StrFencePython == <<Backtick, Backtick, Backtick,"p","y","t","h","o","n","\n">>
StrFence == <<Backtick, Backtick, Backtick>>

\* (pattern, description) in order
WARNING_PATTERNS == <<
    [id |-> "Python script reference", re |-> Lits(StrScripts) \o <<Plus("w")>> \o Lits(<<".","p","y">>)],
    [id |-> "Shell script reference", re |-> Lits(StrScripts) \o <<Plus("w")>> \o Lits(<<".","s","h">>)],
    [id |-> "Bash code block", re |-> Lits(StrFenceBash) \o <<LazyStar("dot")>> \o Lits(StrFence)],
    [id |-> "Python code block", re |-> Lits(StrFencePython) \o <<LazyStar("dot")>> \o Lits(StrFence)] >>

MAX_SINGLE_FILE == 30 * 1024 * 1024
WARN_TOTAL_SIZE == 10 * 1024 * 1024

-----------------------------------------------------------------------------
(* clean_frontmatter, clean_content *)

\* a header mapping is a sequence of <<key, value>> pairs with distinct keys
HasKey(m, k) == \E i \in 1..Len(m) : m[i][1] = k
ValueOf(m, k) == LET i == CHOOSE i \in 1..Len(m) : m[i][1] = k IN m[i][2]
Pop(m, k) == SelectSeq(m, LAMBDA kv : kv[1] # k)

\* the entries of self.changes and self.warnings: the message's kind and the
\* values formatted into it (what: strings, n and m: numbers)
RemovedEntry(field, value) == [kind |-> "Removed YAML field", what |-> <<field, value>>, n |-> 0, m |-> 0]
ReplacedEntry(id, count) == [kind |-> "Replaced", what |-> <<id>>, n |-> count, m |-> 0]
FoundWarning(id, count) == [kind |-> "Found", what |-> <<id>>, n |-> count, m |-> 0]

RECURSIVE CleanFields(_, _, _, _)
\* the loop of clean_frontmatter from field i on: [fm, changes]
CleanFields(i, cleaned, chg, keep) ==
    IF i > Len(REMOVE_YAML_FIELDS) THEN [fm |-> cleaned, changes |-> chg]
    ELSE LET field == REMOVE_YAML_FIELDS[i] IN
         IF HasKey(cleaned, field) /\ ~keep
         THEN CleanFields(i + 1, Pop(cleaned, field),
                          Append(chg, RemovedEntry(field, ValueOf(cleaned, field))), keep)
         ELSE CleanFields(i + 1, cleaned, chg, keep)

\* faulty variant: the keep flag is not consulted
clean_frontmatter_IgnoreKeep(frontmatter, chg, keep) == CleanFields(1, frontmatter, chg, FALSE)

clean_frontmatter(frontmatter, chg, keep) == CleanFields(1, frontmatter, chg, keep)

RECURSIVE ApplyPatterns(_, _, _)
\* the first loop of clean_content from rule i on: [text, changes]
ApplyPatterns(i, cleaned, chg) ==
    IF i > Len(CC_PATTERNS) THEN [text |-> cleaned, changes |-> chg]
    ELSE LET p == CC_PATTERNS[i]
             matches == FindAll(p.re, cleaned)
         IN IF matches # <<>>
            THEN ApplyPatterns(i + 1, Sub(p.re, p.repl, cleaned),
                               Append(chg, ReplacedEntry(p.id, Len(matches))))
            ELSE ApplyPatterns(i + 1, cleaned, chg)

RECURSIVE CheckWarnings(_, _, _)
\* the second loop of clean_content from rule i on: the warnings
CheckWarnings(i, cleaned, wrn) ==
    IF i > Len(WARNING_PATTERNS) THEN wrn
    ELSE LET p == WARNING_PATTERNS[i]
             matches == FindAll(p.re, cleaned)
         IN CheckWarnings(i + 1, cleaned,
                          IF matches # <<>> THEN Append(wrn, FoundWarning(p.id, Len(matches)))
                                            ELSE wrn)

clean_content(content, chg, wrn) ==
    LET a == ApplyPatterns(1, content, chg) IN
    [text |-> a.text, changes |-> a.changes, warnings |-> CheckWarnings(1, a.text, wrn)]

-----------------------------------------------------------------------------
(* Paths and exclusion *)

\* str(path): the components joined by the separator
RECURSIVE PathStr(_)
PathStr(path) ==
    IF path = <<>> THEN <<>>
    ELSE IF Len(path) = 1 THEN path[1]
    ELSE path[1] \o <<"/">> \o PathStr(Tail(path))

\* path.name
NameOf(path) == path[Len(path)]
\* path.parent
Parent(path) == SubSeq(path, 1, Len(path) - 1)

\* str.startswith
StartsWith(str, prefix) ==
    Len(prefix) <= Len(str) /\ SubSeq(str, 1, Len(prefix)) = prefix

\* path.relative_to(base), for a path under base
RelativeTo(path, base) == SubSeq(path, Len(base) + 1, Len(path))

RECURSIVE FnMatch(_, _)
\* fnmatch.fnmatch(name, pattern) for a pattern of literals and *
FnMatch(name, pat) ==
    IF pat = <<>> THEN name = <<>>
    ELSE IF pat[1] = "*"
         THEN \E k \in 0..Len(name) : FnMatch(SubSeq(name, k + 1, Len(name)), Tail(pat))
         ELSE name # <<>> /\ name[1] = pat[1] /\ FnMatch(Tail(name), Tail(pat))

EXCLUDE_PATTERNS == <<
    <<"scripts", "/">>,
    <<"*", ".pyc">>,
    <<"__pycache__", "/">>,
    <<".DS_Store">>,
    <<"*", ".env">>,
    <<"*", ".key">>,
    <<"*", ".pem">> >>

\* pattern.endswith('/')
IsDirPattern(pattern) == pattern[Len(pattern)] = "/"
\* '*' in pattern
IsGlobPattern(pattern) == \E i \in 1..Len(pattern) : pattern[i] = "*"

\* faulty variant: a directory pattern matches the directory's name anywhere in the path
MatchesPattern_AnyComponent(path, pattern) ==
    IF IsDirPattern(pattern)
    THEN \E i \in 1..Len(path) : StartsWith(path[i], SubSeq(pattern, 1, Len(pattern) - 1))
    ELSE IF IsGlobPattern(pattern)
    THEN FnMatch(NameOf(path), pattern)
    ELSE PathStr(path) = pattern \/ NameOf(path) = pattern

\* the test should_exclude makes of one pattern
MatchesPattern(path, pattern) ==
    IF IsDirPattern(pattern)
    THEN StartsWith(PathStr(path), SubSeq(pattern, 1, Len(pattern) - 1))
    ELSE IF IsGlobPattern(pattern)
    THEN FnMatch(NameOf(path), pattern)
    ELSE PathStr(path) = pattern \/ NameOf(path) = pattern

should_exclude(path) ==
    \E i \in 1..Len(EXCLUDE_PATTERNS) : MatchesPattern(path, EXCLUDE_PATTERNS[i])

-----------------------------------------------------------------------------
(* Header cleaning on its own *)

MaxFields == 3

Keys == {"allowed-tools", "name", "description"}
Values == {"Bash", "demo"}

\* the header mappings of at most MaxFields keys, in every key order
Mappings ==
    { m \in UNION { [1..n -> Keys \X Values] : n \in 0..MaxFields } :
        \A i, j \in 1..Len(m) : i # j => m[i][1] # m[j][1] }

Unused == "unused"

InitFrontmatter ==
    /\ arg \in Mappings
    /\ keep_tools \in BOOLEAN
    /\ pc = "frontmatter"
    /\ changes = <<>>
    /\ warnings = <<>>
    /\ ret = Unused
    /\ skill = Unused /\ dry_run = FALSE /\ fs = Unused
    /\ loc = Unused /\ pre = Unused /\ reports = Unused

\* cleaned_frontmatter = self.clean_frontmatter(frontmatter)
CleanFrontmatter ==
    /\ pc = "frontmatter"
    /\ \E r \in {clean_frontmatter(arg, changes, keep_tools)} :
       /\ ret' = r.fm
       /\ changes' = r.changes
    /\ pc' = "frontmatter_cleaned"
    /\ UNCHANGED <<skill, dry_run, keep_tools, warnings, fs, loc, pre, reports, arg>>

NextFrontmatter == CleanFrontmatter

SpecFrontmatter == InitFrontmatter /\ [][NextFrontmatter]_vars

Restricted == { REMOVE_YAML_FIELDS[i] : i \in 1..Len(REMOVE_YAML_FIELDS) }
PairsOf(m) == { m[i] : i \in 1..Len(m) }
\* m without its restricted pairs, the others in their order
IsRestOf(r, m) ==
    /\ PairsOf(r) = { kv \in PairsOf(m) : kv[1] \notin Restricted }
    /\ \A i, j \in 1..Len(m) : \A a, b \in 1..Len(r) :
          (i < j /\ r[a] = m[i] /\ r[b] = m[j]) => a < b
    /\ Len(r) = Cardinality(PairsOf(r))

\* C5: clean_frontmatter without the keep flag returns the mapping without any key
\* of REMOVE_YAML_FIELDS, every other key and value unchanged, and records exactly
\* one change entry per removed key; with the keep flag it returns the mapping as
\* it was and records nothing.
C5_CleanFrontmatter ==
    pc = "frontmatter_cleaned" =>
        IF keep_tools
        THEN ret = arg /\ changes = <<>>
        ELSE /\ \A k \in Restricted : ~HasKey(ret, k)
             /\ IsRestOf(ret, arg)
             /\ Len(changes) = Cardinality({ k \in Restricted : HasKey(arg, k) })
             /\ \A k \in Restricted : HasKey(arg, k) =>
                    \E i \in 1..Len(changes) : changes[i] = RemovedEntry(k, ValueOf(arg, k))

\* a restricted key between two others was removed
C5_Witness ==
    /\ pc = "frontmatter_cleaned"
    /\ ~keep_tools
    /\ Len(arg) = 3 /\ arg[2][1] = "allowed-tools"
    /\ Len(ret) = 2 /\ Len(changes) = 1

\* the keep flag kept a restricted key
C5_WitnessKeep ==
    /\ pc = "frontmatter_cleaned"
    /\ keep_tools
    /\ HasKey(ret, "allowed-tools")

-----------------------------------------------------------------------------
(* Body cleaning applied twice by one converter *)

MaxPieces == 4

\* the fragments bodies are built from
Pieces == { StrMcp \o <<"a">> \o StrUU \o <<"b">>, StrUU, <<"a">>, StrBashLp,
            <<"(">>, <<")">>, <<"(", ")">>, <<Backtick>> }

RECURSIVE Concat(_)
Concat(ss) == IF ss = <<>> THEN <<>> ELSE ss[1] \o Concat(Tail(ss))

Bodies == { Concat(ps) : ps \in UNION { [1..n -> Pieces] : n \in 0..MaxPieces } }

InitClean ==
    /\ arg \in Bodies
    /\ pc = "body"
    /\ changes = <<>>
    /\ warnings = <<>>
    /\ ret = Unused
    /\ skill = Unused /\ dry_run = FALSE /\ keep_tools = FALSE /\ fs = Unused
    /\ loc = Unused /\ pre = Unused /\ reports = Unused

\* cleaned = self.clean_content(body)
CleanOnce ==
    /\ pc = "body"
    /\ \E r \in {clean_content(arg, changes, warnings)} :
       /\ ret' = [once |-> r.text, changes_once |-> r.changes]
       /\ changes' = r.changes
       /\ warnings' = r.warnings
    /\ pc' = "cleaned"
    /\ UNCHANGED <<skill, dry_run, keep_tools, fs, loc, pre, reports, arg>>

\* self.clean_content(cleaned), by the same converter
CleanAgain ==
    /\ pc = "cleaned"
    /\ \E r \in {clean_content(ret.once, changes, warnings)} :
       /\ ret' = [once |-> ret.once, changes_once |-> ret.changes_once, twice |-> r.text]
       /\ changes' = r.changes
       /\ warnings' = r.warnings
    /\ pc' = "recleaned"
    /\ UNCHANGED <<skill, dry_run, keep_tools, fs, loc, pre, reports, arg>>

NextClean == CleanOnce \/ CleanAgain

SpecClean == InitClean /\ [][NextClean]_vars

AnyRuleMatches(text) == \E i \in 1..Len(CC_PATTERNS) : FindAll(CC_PATTERNS[i].re, text) # <<>>

\* C6: body cleaning is idempotent: cleaning a cleaned body returns it unchanged,
\* no CC_PATTERNS rule matches the cleaned body, and the second cleaning appends
\* nothing to the change list.
C6_CleanIdempotent ==
    /\ pc \in {"cleaned", "recleaned"} => ~AnyRuleMatches(ret.once)
    /\ pc = "recleaned" => /\ ret.twice = ret.once
                           /\ changes = ret.changes_once

\* a body in which two rules matched, one on the text the other left, cleaned twice
C6_Witness ==
    /\ pc = "recleaned"
    /\ Len(changes) >= 2
    /\ ret.once # arg

-----------------------------------------------------------------------------
(* The bundle, the output directory and convert() *)

MaxRefs == 2

SkillName == <<"demo">>
\* f".{self.skill_name}_temp"
TempName == <<".">> \o SkillName \o <<"_temp">>
\* f"{self.skill_name}.zip"
ZipName == SkillName \o <<".zip">>
SkillMdName == <<"SKILL", ".md">>
ReferencesName == <<"references">>

\* temp_dir and converted_dir of convert(), relative to self.output_dir
TempDir == <<TempName>>
ConvertedDir == <<TempName, SkillName>>

\* what a file holds: its size, and for a SKILL.md its header and body
NoData == [size |-> 0, fm |-> <<>>, body |-> <<>>]
FileData(n) == [size |-> n, fm |-> <<>>, body |-> <<>>]
DocData(fm, body) == [size |-> 0, fm |-> fm, body |-> body]

\* the files a references directory may hold, each with its path from the bundle
\* root and its size
RefFiles == {
    [path |-> <<ReferencesName, <<"big", ".bin">>>>, size |-> MAX_SINGLE_FILE + 1],
    [path |-> <<ReferencesName, <<"edge", ".bin">>>>, size |-> MAX_SINGLE_FILE],
    [path |-> <<ReferencesName, <<"scripts">>, <<"run", ".md">>>>, size |-> 2048],
    [path |-> <<ReferencesName, <<"__pycache__">>, <<"mod", ".pyc">>>>, size |-> 512] }

\* the files of a references directory in the order rglob lists them
RefSeqs ==
    { q \in UNION { [1..n -> RefFiles] : n \in 0..MaxRefs } :
        \A i, j \in 1..Len(q) : i # j => q[i].path # q[j].path }

\* SKILL.md: whether it has the ---/--- header block, whether the block is YAML
\* that loads, the mapping it loads to, and the body
DocDemo == [delimited |-> TRUE, valid |-> TRUE,
            fm |-> << <<"allowed-tools", "Bash">>, <<"name", "demo">> >>,
            body |-> StrBashLp \o <<"l", "s", ")">>]
DocWarn == [delimited |-> TRUE, valid |-> TRUE,
            fm |-> << <<"name", "demo">> >>,
            body |-> StrScripts \o <<"a", ".", "p", "y">>]
DocPlain == [delimited |-> FALSE, valid |-> TRUE, fm |-> <<>>,
             body |-> <<Backtick>> \o StrMcp \o <<"a">> \o StrUU \o <<"b", "(", ")", Backtick, " ">>
                      \o StrMcp \o <<"a">> \o StrUU \o <<"b">>]
DocBadYaml == [delimited |-> TRUE, valid |-> FALSE, fm |-> <<>>, body |-> <<>>]
Docs == {DocDemo, DocWarn, DocPlain, DocBadYaml}

NoDoc == [delimited |-> FALSE, valid |-> FALSE, fm |-> <<>>, body |-> <<>>]

\* what may be at self.skill_path
Skills ==
    { [kind |-> k, has_md |-> FALSE, doc |-> NoDoc, has_refs |-> FALSE, refs |-> <<>>] :
        k \in {"missing", "file", "dir"} }
    \cup { [kind |-> "dir", has_md |-> TRUE, doc |-> d, has_refs |-> FALSE, refs |-> <<>>] :
        d \in Docs }
    \cup { [kind |-> "dir", has_md |-> TRUE, doc |-> d, has_refs |-> TRUE, refs |-> q] :
        d \in Docs, q \in RefSeqs }

NoZip == [exists |-> FALSE, origin |-> "none", entries |-> {}]
OldZip == [exists |-> TRUE, origin |-> "old",
           entries |-> {[name |-> <<SkillName, <<"OLD">>>>, data |-> NoData]}]

Dir(path) == [path |-> path, kind |-> "dir", data |-> NoData]
File(path, data) == [path |-> path, kind |-> "file", data |-> data]

\* path.exists()
Exists(tree, path) == \E e \in tree : e.path = path
\* shutil.rmtree(dir)
Rmtree(tree, dir) == { e \in tree : ~StartsWith(e.path, dir) }
\* dir.mkdir(parents=True, exist_ok=True)
Mkdirs(tree, dir) ==
    tree \cup { Dir(SubSeq(dir, 1, k)) : k \in { k \in 1..Len(dir) : ~Exists(tree, SubSeq(dir, 1, k)) } }

None == <<>>

EmptyLoc == [todo |-> <<>>, done |-> <<>>, total_size |-> 0, files_copied |-> 0, zq |-> <<>>]

NoReport == [done |-> FALSE, changes |-> <<>>, warnings |-> <<>>]

Init ==
    /\ skill \in Skills
    /\ keep_tools \in BOOLEAN
    /\ dry_run = FALSE
    /\ changes = <<>>
    /\ warnings = <<>>
    /\ fs \in { [tree |-> {}, zip |-> z] : z \in {NoZip, OldZip} }
    /\ pc = "idle"
    /\ loc = EmptyLoc
    /\ pre = fs
    /\ reports = [d \in BOOLEAN |-> NoReport]
    /\ arg = Unused
    /\ ret = None

\* main(): SkillConverter(...) and the entry of convert()
Start ==
    /\ pc \in {"idle", "returned"}
    /\ \E d \in BOOLEAN : dry_run' = d
    /\ changes' = <<>>
    /\ warnings' = <<>>
    /\ loc' = EmptyLoc
    /\ pre' = fs
    /\ ret' = None
    /\ pc' = "validate"
    /\ UNCHANGED <<skill, keep_tools, fs, reports, arg>>

\* faulty variant: the check for SKILL.md is missing
validate_skill_NoDocCheck(sk) ==
    IF sk.kind = "missing" THEN FALSE
    ELSE IF sk.kind # "dir" THEN FALSE
    ELSE TRUE

validate_skill(sk) ==
    IF sk.kind = "missing" THEN FALSE
    ELSE IF sk.kind # "dir" THEN FALSE
    ELSE IF ~sk.has_md THEN FALSE
    ELSE TRUE

\* if not self.validate_skill(): return None
Validate ==
    /\ pc = "validate"
    /\ IF validate_skill(skill)
       THEN pc' = "prepare" /\ ret' = ret
       ELSE pc' = "returned" /\ ret' = None
    /\ UNCHANGED <<skill, dry_run, keep_tools, changes, warnings, fs, loc, pre, reports, arg>>

\* if temp_dir.exists(): shutil.rmtree(temp_dir); converted_dir.mkdir(parents=True)
Prepare ==
    /\ pc = "prepare"
    /\ LET cleared == IF Exists(fs.tree, TempDir) THEN Rmtree(fs.tree, TempDir) ELSE fs.tree
       IN fs' = [fs EXCEPT !.tree = Mkdirs(cleared, ConvertedDir)]
    /\ pc' = "convert_skill_md"
    /\ UNCHANGED <<skill, dry_run, keep_tools, changes, warnings, loc, pre, reports, arg, ret>>

\* parse_frontmatter: the mapping (or {}) and the body; a header block that is
\* no YAML makes yaml.load raise
parse_frontmatter(doc) ==
    IF doc.delimited
    THEN [raised |-> ~doc.valid, fm |-> doc.fm, body |-> doc.body]
    ELSE [raised |-> FALSE, fm |-> <<>>, body |-> doc.body]

\* self.convert_skill_md(converted_dir)
ConvertSkillMd ==
    /\ pc = "convert_skill_md"
    /\ \E parsed \in {parse_frontmatter(skill.doc)} :
       IF ~skill.has_md \/ parsed.raised
       THEN /\ pc' = "except"
            /\ UNCHANGED <<changes, warnings, fs>>
       ELSE \E f \in {clean_frontmatter(parsed.fm, changes, keep_tools)} :
            \E c \in {clean_content(parsed.body, f.changes, warnings)} :
            /\ changes' = c.changes
            /\ warnings' = c.warnings
            /\ fs' = IF dry_run THEN fs
                     ELSE [fs EXCEPT !.tree = @ \cup
                             {File(ConvertedDir \o <<SkillMdName>>, DocData(f.fm, c.text))}]
            /\ pc' = "bundle_references"
    /\ UNCHANGED <<skill, dry_run, keep_tools, loc, pre, reports, arg, ret>>

RECURSIVE WalkFrom(_, _)
\* the listing of the files q with, before the first file of a subdirectory, the
\* subdirectory itself
WalkFrom(q, seen) ==
    IF q = <<>> THEN <<>>
    ELSE LET f == q[1]
             sub == Parent(f.path)
         IN IF Len(sub) > 1 /\ sub \notin seen
            THEN <<[path |-> sub, size |-> 0, is_file |-> FALSE],
                   [path |-> f.path, size |-> f.size, is_file |-> TRUE]>>
                 \o WalkFrom(Tail(q), seen \cup {sub})
            ELSE <<[path |-> f.path, size |-> f.size, is_file |-> TRUE]>>
                 \o WalkFrom(Tail(q), seen)

\* refs_dir.rglob("*"), paths from the bundle root
rglob(refs) == WalkFrom(refs, {})

TooLargeWarning(file_size, rel_path) ==
    [kind |-> "File too large", what |-> PathStr(rel_path), n |-> file_size, m |-> 0]
TotalSizeWarning(total_size) ==
    [kind |-> "Total size exceeds", what |-> <<>>, n |-> total_size, m |-> 0]
BundledEntry(files_copied, total_size) ==
    [kind |-> "Bundled", what |-> <<>>, n |-> files_copied, m |-> total_size]
CreatedEntry(zip_name, zip_size) ==
    [kind |-> "Created zip", what |-> zip_name, n |-> zip_size, m |-> 0]

\* faulty variant: a file is counted only when it is copied
BundleStep_CountWhenCopied(ref_file, st, dry) ==
    IF ~ref_file.is_file THEN st
    ELSE IF should_exclude(ref_file.path) THEN st
    ELSE IF ref_file.size > MAX_SINGLE_FILE
    THEN [st EXCEPT !.warnings = Append(@, TooLargeWarning(ref_file.size, ref_file.path))]
    ELSE [st EXCEPT
            !.total_size = @ + ref_file.size,
            !.tree = IF dry THEN @
                     ELSE Mkdirs(@, ConvertedDir \o Parent(ref_file.path))
                          \cup {File(ConvertedDir \o ref_file.path, FileData(ref_file.size))},
            !.files_copied = IF dry THEN @ ELSE @ + 1]

\* faulty variant: a file of exactly the maximum size is refused
BundleStep_RefuseAtMax(ref_file, st, dry) ==
    IF ~ref_file.is_file THEN st
    ELSE IF should_exclude(ref_file.path) THEN st
    ELSE IF ref_file.size >= MAX_SINGLE_FILE
    THEN [st EXCEPT !.warnings = Append(@, TooLargeWarning(ref_file.size, ref_file.path))]
    ELSE [st EXCEPT
            !.total_size = @ + ref_file.size,
            !.tree = IF dry THEN @
                     ELSE Mkdirs(@, ConvertedDir \o Parent(ref_file.path))
                          \cup {File(ConvertedDir \o ref_file.path, FileData(ref_file.size))},
            !.files_copied = @ + 1]

\* one iteration of the loop of bundle_references on st = [tree, total_size,
\* files_copied, warnings]
BundleStep(ref_file, st, dry) ==
    IF ~ref_file.is_file THEN st
    ELSE IF should_exclude(ref_file.path) THEN st
    ELSE IF ref_file.size > MAX_SINGLE_FILE
    THEN [st EXCEPT !.warnings = Append(@, TooLargeWarning(ref_file.size, ref_file.path))]
    ELSE [st EXCEPT
            !.total_size = @ + ref_file.size,
            !.tree = IF dry THEN @
                     ELSE Mkdirs(@, ConvertedDir \o Parent(ref_file.path))
                          \cup {File(ConvertedDir \o ref_file.path, FileData(ref_file.size))},
            !.files_copied = @ + 1]

\* self.bundle_references(converted_dir), up to the loop
BundleReferences ==
    /\ pc = "bundle_references"
    /\ IF ~skill.has_refs
       THEN pc' = "create_zip" /\ loc' = loc
       ELSE /\ loc' = [loc EXCEPT !.todo = rglob(skill.refs), !.done = <<>>,
                                  !.total_size = 0, !.files_copied = 0]
            /\ pc' = "bundle_loop"
    /\ UNCHANGED <<skill, dry_run, keep_tools, changes, warnings, fs, pre, reports, arg, ret>>

\* for ref_file in refs_dir.rglob("*"): one file
BundleFile ==
    /\ pc = "bundle_loop"
    /\ loc.todo # <<>>
    /\ \E r \in {BundleStep(Head(loc.todo),
                            [tree |-> fs.tree, total_size |-> loc.total_size,
                             files_copied |-> loc.files_copied, warnings |-> warnings],
                            dry_run)} :
       /\ fs' = [fs EXCEPT !.tree = r.tree]
       /\ warnings' = r.warnings
       /\ loc' = [loc EXCEPT !.todo = Tail(@), !.done = Append(@, Head(loc.todo)),
                             !.total_size = r.total_size, !.files_copied = r.files_copied]
    /\ UNCHANGED <<skill, dry_run, keep_tools, changes, pc, pre, reports, arg, ret>>

\* faulty variant: no summary entry
BundleSummary_None(chg, files_copied, total_size) == chg

\* self.changes.append(f"Bundled {files_copied} reference files ...")
BundleSummary(chg, files_copied, total_size) ==
    Append(chg, BundledEntry(files_copied, total_size))

\* the end of bundle_references: the total size warning and the summary
BundleEnd ==
    /\ pc = "bundle_loop"
    /\ loc.todo = <<>>
    /\ warnings' = IF loc.total_size > WARN_TOTAL_SIZE
                   THEN Append(warnings, TotalSizeWarning(loc.total_size))
                   ELSE warnings
    /\ changes' = BundleSummary(changes, loc.files_copied, loc.total_size)
    /\ pc' = "create_zip"
    /\ UNCHANGED <<skill, dry_run, keep_tools, fs, loc, pre, reports, arg, ret>>

\* create_zip in a dry run: the path alone
CreateZipDry ==
    /\ pc = "create_zip"
    /\ dry_run
    /\ pc' = "report"
    /\ UNCHANGED <<skill, dry_run, keep_tools, changes, warnings, fs, loc, pre, reports, arg, ret>>

\* if zip_path.exists(): zip_path.unlink()
ZipUnlink ==
    /\ pc = "create_zip"
    /\ ~dry_run
    /\ fs' = [fs EXCEPT !.zip = IF @.exists THEN NoZip ELSE @]
    /\ pc' = "zip_open"
    /\ UNCHANGED <<skill, dry_run, keep_tools, changes, warnings, loc, pre, reports, arg, ret>>

RECURSIVE SetToSeq(_)
SetToSeq(S) == IF S = {} THEN <<>> ELSE LET x == CHOOSE x \in S : TRUE IN <<x>> \o SetToSeq(S \ {x})

\* zipfile.ZipFile(zip_path, 'w', ...) and skill_dir.rglob("*")
ZipOpen ==
    /\ pc = "zip_open"
    /\ fs' = [fs EXCEPT !.zip = [exists |-> TRUE, origin |-> "new", entries |-> {}]]
    /\ loc' = [loc EXCEPT !.zq = SetToSeq({ e \in fs.tree :
                    StartsWith(e.path, ConvertedDir) /\ e.path # ConvertedDir })]
    /\ pc' = "zip_write"
    /\ UNCHANGED <<skill, dry_run, keep_tools, changes, warnings, pre, reports, arg, ret>>

\* faulty variant: the name keeps the staging directory
ArcName_FromOutputDir(file_path, temp_dir) == file_path

\* arc_name = file_path.relative_to(temp_dir)
ArcName(file_path, temp_dir) == RelativeTo(file_path, temp_dir)

\* if file_path.is_file(): zf.write(file_path, arc_name)
ZipWrite ==
    /\ pc = "zip_write"
    /\ loc.zq # <<>>
    /\ LET e == Head(loc.zq) IN
       fs' = IF e.kind = "file"
             THEN [fs EXCEPT !.zip.entries = @ \cup {[name |-> ArcName(e.path, TempDir), data |-> e.data]}]
             ELSE fs
    /\ loc' = [loc EXCEPT !.zq = Tail(@)]
    /\ UNCHANGED <<skill, dry_run, keep_tools, changes, warnings, pc, pre, reports, arg, ret>>

\* zip_path.stat().st_size, counted in entries
ZipSize(zip) == Cardinality(zip.entries)

\* the archive is closed; self.changes.append(f"Created zip: ...")
ZipClose ==
    /\ pc = "zip_write"
    /\ loc.zq = <<>>
    /\ changes' = Append(changes, CreatedEntry(ZipName, ZipSize(fs.zip)))
    /\ pc' = "report"
    /\ UNCHANGED <<skill, dry_run, keep_tools, warnings, fs, loc, pre, reports, arg, ret>>

\* self.report(); return zip_path
Report ==
    /\ pc = "report"
    /\ reports' = [reports EXCEPT ![dry_run] =
                      [done |-> TRUE, changes |-> changes, warnings |-> warnings]]
    /\ ret' = <<ZipName>>
    /\ pc' = "finally"
    /\ UNCHANGED <<skill, dry_run, keep_tools, changes, warnings, fs, loc, pre, arg>>

TryBlock == {"prepare", "convert_skill_md", "bundle_references", "bundle_loop",
             "create_zip", "zip_open", "zip_write", "report"}

\* a file system or output call inside the try block raises
Raise ==
    /\ pc \in TryBlock
    /\ pc' = "except"
    /\ UNCHANGED <<skill, dry_run, keep_tools, changes, warnings, fs, loc, pre, reports, arg, ret>>

\* except Exception as e: print(...); return None
Except ==
    /\ pc = "except"
    /\ ret' = None
    /\ pc' = "finally"
    /\ UNCHANGED <<skill, dry_run, keep_tools, changes, warnings, fs, loc, pre, reports, arg>>

\* finally: if temp_dir.exists() and not self.dry_run: shutil.rmtree(temp_dir);
\* convert() returns and its locals are gone
Finally ==
    /\ pc = "finally"
    /\ fs' = IF Exists(fs.tree, TempDir) /\ ~dry_run
             THEN [fs EXCEPT !.tree = Rmtree(@, TempDir)]
             ELSE fs
    /\ loc' = EmptyLoc
    /\ pc' = "returned"
    /\ UNCHANGED <<skill, dry_run, keep_tools, changes, warnings, pre, reports, arg, ret>>

Next ==
    \/ Start \/ Validate \/ Prepare \/ ConvertSkillMd
    \/ BundleReferences \/ BundleFile \/ BundleEnd
    \/ CreateZipDry \/ ZipUnlink \/ ZipOpen \/ ZipWrite \/ ZipClose
    \/ Report \/ Raise \/ Except \/ Finally

Spec == Init /\ [][Next]_vars

\* the exit status of main()
ExitStatus == IF ret # None THEN 0 ELSE 1

-----------------------------------------------------------------------------
(* Properties of convert() *)

InRun == pc \notin {"idle"}
ReturnedPath == pc = "returned" /\ ret # None
IsStaging(path) == StartsWith(path, TempDir)

\* C1: a dry run creates nothing on disk: whatever staging directory, staged file or
\* archive exists during or after it existed before it.
C1_DryRunCreatesNothing ==
    (InRun /\ dry_run) =>
        /\ \A e \in fs.tree : IsStaging(e.path) => Exists(pre.tree, e.path)
        /\ fs.zip.exists => pre.zip.exists

\* C3: after a run that is not a dry run no staging directory exists, however the
\* run ended; and after any sequence of runs, dry or not, none is left.
C3_NoStagingAfterRuns ==
    /\ (pc = "returned" /\ ~dry_run) => ~Exists(fs.tree, TempDir)
    /\ pc = "returned" => ~Exists(fs.tree, TempDir)

\* C2: a dry run and a run that is none, on the same input, end with the same
\* change list and the same warning list.
C2_SameReports ==
    (reports[TRUE].done /\ reports[FALSE].done) =>
        /\ reports[TRUE].changes = reports[FALSE].changes
        /\ reports[TRUE].warnings = reports[FALSE].warnings

\* C2 as amended: the warning lists are the same, and the change list of the run
\* that is no dry run is that of the dry run followed by one "Created zip" entry.
C2_SameReportsButCreatedZip ==
    (reports[TRUE].done /\ reports[FALSE].done) =>
        LET d == reports[TRUE].changes
            r == reports[FALSE].changes
        IN /\ reports[TRUE].warnings = reports[FALSE].warnings
           /\ Len(r) = Len(d) + 1
           /\ SubSeq(r, 1, Len(d)) = d
           /\ r[Len(r)].kind = "Created zip"

\* both runs reported, with a removed field, a bundled file and two warnings
C2_Witness ==
    /\ reports[TRUE].done /\ reports[FALSE].done
    /\ Len(reports[TRUE].warnings) >= 2
    /\ \E i \in 1..Len(reports[TRUE].changes) :
          reports[TRUE].changes[i].kind = "Bundled" /\ reports[TRUE].changes[i].n >= 1

InvalidSource == skill.kind # "dir" \/ ~skill.has_md

\* C4: for a source path that does not exist, is no directory or holds no SKILL.md,
\* convert() returns None (exit status 1) and does no work: the output directory
\* stays as it was, archive included, and both lists stay empty.
C4_InvalidSourceNoWork ==
    InvalidSource =>
        /\ pc \in {"idle", "validate", "returned"}
        /\ fs = pre
        /\ changes = <<>> /\ warnings = <<>>
        /\ pc = "returned" => (ret = None /\ ExitStatus = 1)

\* a directory without SKILL.md was refused, the old archive in place
C4_Witness ==
    /\ pc = "returned"
    /\ skill.kind = "dir" /\ ~skill.has_md
    /\ fs.zip = OldZip

\* the entries the claims name, from the bundle alone
RECURSIVE RemovalsFrom(_, _)
RemovalsFrom(i, fm) ==
    IF i > Len(REMOVE_YAML_FIELDS) THEN <<>>
    ELSE (IF HasKey(fm, REMOVE_YAML_FIELDS[i])
          THEN <<RemovedEntry(REMOVE_YAML_FIELDS[i], ValueOf(fm, REMOVE_YAML_FIELDS[i]))>>
          ELSE <<>>) \o RemovalsFrom(i + 1, fm)

\* one removal entry per restricted header key present, unless the keep flag is set
RemovalEntries == IF keep_tools THEN <<>> ELSE RemovalsFrom(1, parse_frontmatter(skill.doc).fm)

RECURSIVE ReplacementsFrom(_, _)
ReplacementsFrom(i, text) ==
    IF i > Len(CC_PATTERNS) THEN <<>>
    ELSE LET k == Len(FindAll(CC_PATTERNS[i].re, text)) IN
         IF k = 0 THEN ReplacementsFrom(i + 1, text)
         ELSE <<ReplacedEntry(CC_PATTERNS[i].id, k)>>
              \o ReplacementsFrom(i + 1, Sub(CC_PATTERNS[i].re, CC_PATTERNS[i].repl, text))

\* one replacement entry per body rule that matched at least once
ReplacementEntries == ReplacementsFrom(1, parse_frontmatter(skill.doc).body)

\* the files of references/ that pass the exclusion rules and the size maximum
Bundled(q) == { i \in 1..Len(q) : ~should_exclude(q[i].path) /\ q[i].size <= MAX_SINGLE_FILE }
RECURSIVE SumSizes(_, _)
SumSizes(q, I) ==
    IF I = {} THEN 0 ELSE LET i == CHOOSE i \in I : TRUE IN q[i].size + SumSizes(q, I \ {i})

\* the bundling summary: the count of files copied and their total size
SummaryEntry == BundledEntry(Cardinality(Bundled(skill.refs)), SumSizes(skill.refs, Bundled(skill.refs)))

\* C7: after a conversion that is no dry run and returned the archive, the change
\* list is exactly: the removal entries, the replacement entries, one bundling
\* summary - for every bundle, also one without references/ - and nothing else.
C7_ChangeList ==
    (ReturnedPath /\ ~dry_run) =>
        changes = RemovalEntries \o ReplacementEntries \o <<SummaryEntry>>

\* C7 as amended: the removal entries, the replacement entries, one bundling summary
\* when the bundle has a references directory and none when it has not, and last one
\* "Created zip" entry naming the archive.
C7_ChangeListWithCreatedZip ==
    (ReturnedPath /\ ~dry_run) =>
        LET head == RemovalEntries \o ReplacementEntries
                    \o (IF skill.has_refs THEN <<SummaryEntry>> ELSE <<>>)
        IN /\ Len(changes) = Len(head) + 1
           /\ SubSeq(changes, 1, Len(head)) = head
           /\ changes[Len(changes)].kind = "Created zip"
           /\ changes[Len(changes)].what = ZipName

\* the demo bundle with one reference file bundled: removal, replacement, summary, zip
C7_Witness ==
    /\ ReturnedPath /\ ~dry_run /\ ~keep_tools
    /\ skill.doc = DocDemo /\ skill.has_refs
    /\ Len(changes) = 4
    /\ changes[3].kind = "Bundled" /\ changes[3].n = 1

\* the files of references/ the loop of bundle_references has handled
Handled == { loc.done[i] : i \in { i \in 1..Len(loc.done) : loc.done[i].is_file } }
\* the file is in the staging directory
Staged(f) == \E e \in fs.tree : e.kind = "file" /\ e.path = ConvertedDir \o f.path
\* the file is in the archive
Archived(f) == \E z \in fs.zip.entries : z.name = <<SkillName>> \o f.path /\ fs.zip.origin = "new"

DirPatterns == { i \in 1..Len(EXCLUDE_PATTERNS) : IsDirPattern(EXCLUDE_PATTERNS[i]) }
\* a directory rule of should_exclude matches the path
DirRuleExcludes(path) == \E i \in DirPatterns : MatchesPattern(path, EXCLUDE_PATTERNS[i])
\* the path from the bundle root begins with a directory rule, separator included
BeginsWithDirRule(path) == \E i \in DirPatterns : StartsWith(PathStr(path), EXCLUDE_PATTERNS[i])
\* a rule that is no directory rule matches the path
OtherRuleExcludes(path) ==
    \E i \in (1..Len(EXCLUDE_PATTERNS)) \ DirPatterns : MatchesPattern(path, EXCLUDE_PATTERNS[i])

\* C8: a directory rule excludes a file of references/ exactly when the file's path
\* from the bundle root begins with the rule, separator included; such a file is in
\* neither the staging directory nor the archive; a file whose path does not begin
\* so is not excluded by a directory rule (and so is staged when no other rule and
\* no size limit refuses it and the run is no dry run).
C8_DirectoryRules ==
    /\ pc = "bundle_loop" =>
        \A f \in Handled :
            /\ DirRuleExcludes(f.path) <=> BeginsWithDirRule(f.path)
            /\ should_exclude(f.path) <=> (BeginsWithDirRule(f.path) \/ OtherRuleExcludes(f.path))
            /\ BeginsWithDirRule(f.path) => ~Staged(f)
            /\ (~BeginsWithDirRule(f.path) /\ ~OtherRuleExcludes(f.path)
                /\ f.size <= MAX_SINGLE_FILE /\ ~dry_run) => Staged(f)
    /\ (pc = "report" /\ ~dry_run) =>
        \A i \in 1..Len(skill.refs) :
            /\ BeginsWithDirRule(skill.refs[i].path) => ~Archived(skill.refs[i])
            /\ (~BeginsWithDirRule(skill.refs[i].path) /\ ~OtherRuleExcludes(skill.refs[i].path)
                /\ skill.refs[i].size <= MAX_SINGLE_FILE) => Archived(skill.refs[i])

ScriptsRun == <<ReferencesName, <<"scripts">>, <<"run", ".md">>>>

\* a file in a directory named scripts inside references/ was handled and staged:
\* its path from the bundle root begins with references/, not with scripts/
C8_Witness ==
    /\ pc = "bundle_loop" /\ ~dry_run
    /\ \E f \in Handled : f.path = ScriptsRun /\ Staged(f)

WarningsNaming(f) ==
    { i \in 1..Len(warnings) : warnings[i].kind = "File too large" /\ warnings[i].what = PathStr(f.path) }
HandledBundled == { f \in Handled : ~should_exclude(f.path) /\ f.size <= MAX_SINGLE_FILE }
RECURSIVE SumOf(_)
SumOf(F) == IF F = {} THEN 0 ELSE LET f == CHOOSE f \in F : TRUE IN f.size + SumOf(F \ {f})

\* C9: a file of references/ that is not excluded and is larger than the maximum is
\* not copied, not counted, not added to the total, and gets exactly one warning
\* naming it, and the loop goes on; a file of at most the maximum is copied and gets
\* no size warning.
C9_SizeLimit ==
    pc = "bundle_loop" =>
        /\ \A f \in Handled : ~should_exclude(f.path) =>
              IF f.size > MAX_SINGLE_FILE
              THEN ~Staged(f) /\ Cardinality(WarningsNaming(f)) = 1
              ELSE Staged(f) /\ WarningsNaming(f) = {}
        /\ loc.files_copied = Cardinality(HandledBundled)
        /\ loc.total_size = SumOf(HandledBundled)

\* C9 as amended: the same, but a file of at most the maximum is copied only when
\* the run is no dry run; in a dry run it is counted and added to the total and
\* nothing is copied.
C9_SizeLimitDryAware ==
    pc = "bundle_loop" =>
        /\ \A f \in Handled : ~should_exclude(f.path) =>
              IF f.size > MAX_SINGLE_FILE
              THEN ~Staged(f) /\ Cardinality(WarningsNaming(f)) = 1
              ELSE (Staged(f) <=> ~dry_run) /\ WarningsNaming(f) = {}
        /\ loc.files_copied = Cardinality(HandledBundled)
        /\ loc.total_size = SumOf(HandledBundled)

\* a file one byte over the maximum and one of exactly the maximum were handled
C9_Witness ==
    /\ pc = "bundle_loop" /\ ~dry_run
    /\ \E f, g \in Handled : /\ f.size = MAX_SINGLE_FILE + 1 /\ ~Staged(f)
                             /\ g.size = MAX_SINGLE_FILE /\ Staged(g)
    /\ Len(warnings) >= 1

StagedFiles == { e \in fs.tree : e.kind = "file" /\ StartsWith(e.path, ConvertedDir) }
StagedDirs == { e \in fs.tree : e.kind = "dir" /\ StartsWith(e.path, TempDir) }

\* C10: in the archive of a conversion that is no dry run every entry name begins
\* with the skill name and none holds the staging directory's name; there is exactly
\* one entry per staged file - SKILL.md and the copied files under references/ - and
\* none for a directory; and an archive that was at the output path is removed
\* before the new one is written.
C10_Archive ==
    /\ (pc = "zip_open" /\ ~dry_run) => ~fs.zip.exists
    /\ (pc \in {"zip_write", "report"} /\ ~dry_run) =>
          /\ fs.zip.exists /\ fs.zip.origin = "new"
          /\ \A z \in fs.zip.entries :
                /\ z.name[1] = SkillName
                /\ \A k \in 1..Len(z.name) : z.name[k] # TempName
                /\ z.name = <<SkillName, SkillMdName>> \/ z.name[2] = ReferencesName
                /\ \E e \in StagedFiles : e.path = TempDir \o z.name /\ e.data = z.data
                /\ \A e \in StagedDirs : e.path # TempDir \o z.name
    /\ (pc = "report" /\ ~dry_run) =>
          /\ Cardinality(fs.zip.entries) = Cardinality(StagedFiles)
          /\ \A e \in StagedFiles : \E z \in fs.zip.entries : TempDir \o z.name = e.path
    /\ (ReturnedPath /\ ~dry_run) =>
          /\ fs.zip.exists /\ fs.zip.origin = "new"
          /\ \A z \in fs.zip.entries : z.name[1] = SkillName

\* an archive replaced an old one and holds SKILL.md and a file of a subdirectory
C10_Witness ==
    /\ pc = "report" /\ ~dry_run
    /\ pre.zip = OldZip
    /\ \E z \in fs.zip.entries : z.name = <<SkillName>> \o ScriptsRun
    /\ \E z \in fs.zip.entries : z.name = <<SkillName, SkillMdName>>
    /\ \E e \in StagedDirs : Len(e.path) = 4

====
